---- MODULE Spec2Model ----
(***************************************************************************)
(* FAIR EVA web client (src/fair_eva_web_client/app.py).                   *)
(*                                                                         *)
(* The model has two parts:                                                *)
(*   - compute_scores, the score aggregator, as operators over an encoding *)
(*     of the JSON evaluation document;                                    *)
(*   - the Flask application built by create_app: the Settings object it   *)
(*     captures, the routing table, and the index and evaluator handlers.  *)
(*                                                                         *)
(* Numbers.  Every JSON number is held as an integer count of hundredths   *)
(* (74.99 is 7499, a weight of 1 is 100), so that a score rounded to two   *)
(* decimals is an integer.  A product points*weight is then a count of     *)
(* ten-thousandths, and (sum of products) / (sum of weights) is again a    *)
(* count of hundredths.                                                    *)
(***************************************************************************)
EXTENDS Integers, Sequences, FiniteSets, TLC

(***************************************************************************)
(* Bounds of the model.                                                    *)
(***************************************************************************)
\* Largest number of indicators (over the four principles together) of a
\* numeric input document of compute_scores.
MaxIndicators == 4
\* Largest number of entries of an input document drawn from the malformed
\* and message shapes.
MaxShapes == 2
\* Largest number of indicators of an input document one of whose indicators
\* has the id "result".
MaxResultKeyed == 2

(***************************************************************************)
(* Program constants.                                                      *)
(***************************************************************************)
\* round(x, 2): two decimals, i.e. hundredths.
Scale == 100
GreenMin == 75
YellowMin == 50
Green == "#2ECC71"
Yellow == "#F4D03F"
Red == "#E74C3C"
\* The principles, in the order compute_scores walks them.
Dims == <<"findable", "accessible", "interoperable", "reusable">>
DimSet == {Dims[i] : i \in 1..Len(Dims)}

(***************************************************************************)
(* JSON values, as far as compute_scores looks at them.                    *)
(*                                                                         *)
(* A scalar (the value of "points" or of "weight"):                        *)
(*   absent   the key is missing                                           *)
(*   null     JSON null                                                    *)
(*   num      a number, n hundredths                                       *)
(*   numstr   a string holding a decimal literal worth n hundredths ("12") *)
(*   str      a non-empty string that is no number ("abc")                 *)
(***************************************************************************)
Absent == [t |-> "absent", n |-> 0]
Null == [t |-> "null", n |-> 0]
Num(n) == [t |-> "num", n |-> n]
NumStr(n) == [t |-> "numstr", n |-> n]
Str == [t |-> "str", n |-> 0]

\* Python truth value of a scalar: None and 0 are false, a non-empty string
\* is true; an absent key has already been replaced by the default 0.0.
Truthy(v) ==
    CASE v.t = "num" -> v.n # 0
      [] v.t \in {"numstr", "str"} -> TRUE
      [] OTHER -> FALSE

\* float(v or 0.0): the value in hundredths, or the exception float() raises.
FloatOf(v) ==
    IF ~Truthy(v) THEN [raised |-> "", v |-> 0]
    ELSE IF v.t = "str" THEN [raised |-> "ValueError", v |-> 0]
    ELSE [raised |-> "", v |-> v.n]

(***************************************************************************)
(* The value of an indicator's "score" key: absent, null, a number, or a   *)
(* mapping whose "weight" is a scalar.                                     *)
(***************************************************************************)
ScoreAbsent == [t |-> "absent", weight |-> Absent]
ScoreNull == [t |-> "null", weight |-> Absent]
ScoreNum == [t |-> "num", weight |-> Absent]
ScoreMap(w) == [t |-> "map", weight |-> w]

\* float(test.get("score", {}).get("weight", 0.0) or 0.0)
WeightOf(score) ==
    CASE score.t = "absent" -> FloatOf(Absent)
      [] score.t = "map" -> FloatOf(score.weight)
      [] OTHER -> [raised |-> "AttributeError", v |-> 0]

(***************************************************************************)
(* The value of an indicator's "msg" key: absent, null, a string s, or a   *)
(* list l of elements; an element is a mapping (with or without a          *)
(* "message" key) or a string.                                             *)
(***************************************************************************)
MsgAbsent == [t |-> "absent", s |-> "", l |-> <<>>]
MsgNull == [t |-> "null", s |-> "", l |-> <<>>]
MsgStr(s) == [t |-> "str", s |-> s, l |-> <<>>]
MsgList(l) == [t |-> "list", s |-> "", l |-> l]
MsgObj(m) == [t |-> "map", has |-> TRUE, message |-> m]
MsgObjEmpty == [t |-> "map", has |-> FALSE, message |-> ""]
MsgElemStr(s) == [t |-> "str", has |-> FALSE, message |-> s]

\* Lines 120-125.  The formatted value is a list l of strings (t = "list")
\* or the scalar s itself (t = "str").
FormatMsg(messages) ==
    IF messages.t = "list"
    THEN IF \E i \in DOMAIN messages.l : messages.l[i].t # "map"
         THEN [raised |-> "AttributeError", v |-> MsgList(<<>>)]
         ELSE [raised |-> "",
               v |-> MsgList([i \in DOMAIN messages.l |->
                        IF messages.l[i].has THEN messages.l[i].message ELSE ""])]
    ELSE IF messages.t = "str" /\ messages.s # ""
         THEN [raised |-> "", v |-> MsgStr(messages.s)]
         ELSE [raised |-> "", v |-> MsgList(<<>>)]

(***************************************************************************)
(* An entry of a principle's mapping: a test (a mapping, isdict) or any    *)
(* other JSON value.  Strings are "" when the key is missing or empty.     *)
(***************************************************************************)
Test(name, points, score, color, msg) ==
    [isdict |-> TRUE, name |-> name, name_smart |-> "", points |-> points,
     score |-> score, color |-> color, test_status |-> "", msg |-> msg]
NotATest ==
    [isdict |-> FALSE, name |-> "", name_smart |-> "", points |-> Absent,
     score |-> ScoreAbsent, color |-> "", test_status |-> "", msg |-> MsgAbsent]

\* A Python dict as the sequence of its [key, val] items in insertion order.
DictGet(d, key) ==
    LET hits == {i \in DOMAIN d : d[i].key = key}
    IN  d[CHOOSE i \in hits : TRUE].val
DictHas(d, key) == \E i \in DOMAIN d : d[i].key = key
\* d[key] = val: an existing key keeps its place and takes the new value.
DictSet(d, key, val) ==
    IF DictHas(d, key)
    THEN [i \in DOMAIN d |-> IF d[i].key = key THEN [key |-> key, val |-> val] ELSE d[i]]
    ELSE Append(d, [key |-> key, val |-> val])

(***************************************************************************)
(* A principle's value in the document: absent, null, a mapping (items),   *)
(* or some other JSON value (t = "str").  The document itself is a mapping *)
(* (t = "map": the four principles in m, and `other` further keys), null,  *)
(* or some other JSON value (t = "str").                                   *)
(***************************************************************************)
DimAbsent == [t |-> "absent", items |-> <<>>]
DimNull == [t |-> "null", items |-> <<>>]
DimStr == [t |-> "str", items |-> <<>>]
DimMap(items) == [t |-> "map", items |-> items]
DocMap(m, other) == [t |-> "map", m |-> m, other |-> other]
NoDims == [d \in DimSet |-> DimAbsent]
DocNull == [t |-> "null", m |-> NoDims, other |-> 0]
DocStr == [t |-> "str", m |-> NoDims, other |-> 0]

(***************************************************************************)
(* compute_scores                                                          *)
(***************************************************************************)
\* colour_for with the boundaries left open: 75.0 and 50.0 fall a band lower.
colour_for_Strict(value) ==
    IF value > GreenMin * Scale THEN Green
    ELSE IF value > YellowMin * Scale THEN Yellow
    ELSE Red

colour_for(value) ==
    IF value >= GreenMin * Scale THEN Green
    ELSE IF value >= YellowMin * Scale THEN Yellow
    ELSE Red

Abs(x) == IF x < 0 THEN -x ELSE x

(***************************************************************************)
(* round(num / den, 2) for den > 0, in hundredths.  Off a tie the nearest  *)
(* hundredth is the result whatever the binary rounding errors are.  At a  *)
(* tie (the exact quotient ends in ...5 thousandths) the double that is    *)
(* rounded is the exact quotient only if the operands are whole numbers    *)
(* and the quotient is a multiple of 1/8; Python then rounds half to even. *)
(* At every other tie the result depends on the sign of the accumulated    *)
(* binary error of the operands: `up` is that sign.                        *)
(***************************************************************************)
Round2(num, den, whole, up) ==
    LET a == Abs(num)
        q == a \div den
        r == a % den
        exact == whole /\ (2 * q + 1) % 25 = 0
        mag == IF 2 * r < den THEN q
               ELSE IF 2 * r > den THEN q + 1
               ELSE IF exact THEN (IF q % 2 = 0 THEN q ELSE q + 1)
               ELSE IF up THEN q + 1 ELSE q
    IN  IF num < 0 THEN -mag ELSE mag

\* Is round(num / den, 2) at a tie that the binary errors decide?
OpenTie(num, den, whole) ==
    /\ den > 0
    /\ 2 * (Abs(num) % den) = den
    /\ ~(whole /\ (2 * (Abs(num) \div den) + 1) % 25 = 0)

\* Lines 126-136: the processed entry of a test, given its points, its
\* weight and its formatted messages.
ProcessedEntry(key, test, p, w, m) ==
    LET nm == IF test.name # "" THEN test.name ELSE key
    IN  [raised |-> IF p.raised # "" THEN p.raised
                    ELSE IF w.raised # "" THEN w.raised
                    ELSE m.raised,
         points |-> p.v,
         weight |-> w.v,
         entry |-> [name |-> nm,
                    name_smart |-> IF test.name_smart # "" THEN test.name_smart ELSE nm,
                    points |-> p.v,
                    score |-> [weight |-> w.v],
                    color |-> IF test.color # "" THEN test.color ELSE colour_for(p.v),
                    test_status |-> test.test_status,
                    msg |-> m.v]]

\* Lines 115-136 for one entry that is a dict.
ProcessTest(key, test) ==
    ProcessedEntry(key, test, FloatOf(test.points), WeightOf(test.score),
                   FormatMsg(test.msg))

NoAcc == [raised |-> "", processed |-> <<>>, points_sum |-> 0, weight_sum |-> 0,
          whole |-> TRUE]

\* Accumulate with `points_sum += points`: the weight forgotten in the sum.
Accumulate_Unweighted(acc, key, t) ==
    [raised |-> t.raised,
     processed |-> IF t.raised # "" THEN acc.processed
                   ELSE DictSet(acc.processed, key, t.entry),
     points_sum |-> acc.points_sum + t.points * Scale,
     weight_sum |-> acc.weight_sum + t.weight,
     whole |-> acc.whole /\ t.points % Scale = 0 /\ t.weight % Scale = 0]

\* Lines 126-138: the entry t of key joins the processed dict and the sums.
\* `whole` records whether every operand so far is a whole number.
Accumulate(acc, key, t) ==
    [raised |-> t.raised,
     processed |-> IF t.raised # "" THEN acc.processed
                   ELSE DictSet(acc.processed, key, t.entry),
     points_sum |-> acc.points_sum + t.points * t.weight,
     weight_sum |-> acc.weight_sum + t.weight,
     whole |-> acc.whole /\ t.points % Scale = 0 /\ t.weight % Scale = 0]

\* The loop of lines 112-138 from entry i on; an exception ends it.
RECURSIVE ProcessItems(_, _, _)
ProcessItems(items, i, acc) ==
    IF i > Len(items) \/ acc.raised # "" THEN acc
    ELSE IF ~items[i].val.isdict THEN ProcessItems(items, i + 1, acc)
    ELSE ProcessItems(items, i + 1,
                      Accumulate(acc, items[i].key,
                                 ProcessTest(items[i].key, items[i].val)))

\* Lines 141-142.
SetResult(acc, result_points) ==
    [acc EXCEPT !.processed =
        DictSet(acc.processed, "result",
                [points |-> result_points, color |-> colour_for(result_points)])]

\* Lines 140-142.
AggregateDim(acc, up) ==
    IF acc.raised # "" THEN acc
    ELSE SetResult(acc, IF acc.weight_sum > 0
                        THEN Round2(acc.points_sum, acc.weight_sum, acc.whole, up)
                        ELSE 0)

\* Lines 107-143 for one principle: the processed dict with its "result".
\* A value that is neither null nor a mapping has no items().
ProcessDim(data, dim, up) ==
    IF data.m[dim].t = "str" THEN [NoAcc EXCEPT !.raised = "AttributeError"]
    ELSE AggregateDim(ProcessItems(data.m[dim].items, 1, NoAcc), up)

NoTotals == [raised |-> "", principles |-> [d \in DimSet |-> <<>>],
             total_points |-> 0, total_weight |-> 0, whole |-> TRUE]

\* Lines 143-145.
AddDim(tot, dim, d) ==
    [raised |-> d.raised,
     principles |-> [tot.principles EXCEPT ![dim] = d.processed],
     total_points |-> tot.total_points + d.points_sum,
     total_weight |-> tot.total_weight + d.weight_sum,
     whole |-> tot.whole /\ d.whole]

\* The loop of lines 106-145 from principle i on; an exception ends it.
RECURSIVE ProcessDims(_, _, _, _)
ProcessDims(data, i, tot, up) ==
    IF i > Len(Dims) \/ tot.raised # "" THEN tot
    ELSE ProcessDims(data, i + 1,
                     AddDim(tot, Dims[i], ProcessDim(data, Dims[i], up[Dims[i]])), up)

NotCalled == [called |-> FALSE, raised |-> "", principles |-> [d \in DimSet |-> <<>>],
              fair_points |-> 0, fair_color |-> ""]
Raised(exc) == [NotCalled EXCEPT !.called = TRUE, !.raised = exc]

\* Lines 147-148.
Returned(principles, fair_points) ==
    [called |-> TRUE, raised |-> "", principles |-> principles,
     fair_points |-> fair_points, fair_color |-> colour_for(fair_points)]

\* Overall as the mean of the four principle aggregates.
Overall_MeanOfAggregates(tot, up) ==
    IF tot.raised # "" THEN Raised(tot.raised)
    ELSE Returned(tot.principles,
                  (DictGet(tot.principles["findable"], "result").points
                   + DictGet(tot.principles["accessible"], "result").points
                   + DictGet(tot.principles["interoperable"], "result").points
                   + DictGet(tot.principles["reusable"], "result").points) \div 4)

\* Lines 146-148.
Overall(tot, up) ==
    IF tot.raised # "" THEN Raised(tot.raised)
    ELSE Returned(tot.principles,
                  IF tot.total_weight > 0
                  THEN Round2(tot.total_points, tot.total_weight, tot.whole, up)
                  ELSE 0)

\* compute_scores(data); up[s] decides the open tie, if any, of the score s
\* (a principle or "fair").  A data that is no mapping has no get().
compute_scores(data, up) ==
    IF data.t # "map" THEN Raised("AttributeError")
    ELSE Overall(ProcessDims(data, 1, NoTotals, up), up["fair"])

(***************************************************************************)
(* The open ties of compute_scores(data): the scores whose rounding the    *)
(* binary errors of the float arithmetic decide, and the ways they can go. *)
(***************************************************************************)
Slots == DimSet \cup {"fair"}
NoUp == [s \in Slots |-> FALSE]

SumsTie(sums) == OpenTie(sums.points_sum, sums.weight_sum, sums.whole)
TotalsTie(tot) ==
    tot.raised = "" /\ OpenTie(tot.total_points, tot.total_weight, tot.whole)

OpenTies(data) ==
    IF data.t # "map" THEN {}
    ELSE {d \in DimSet : data.m[d].t # "str"
                         /\ SumsTie(ProcessItems(data.m[d].items, 1, NoAcc))}
         \cup {s \in {"fair"} : TotalsTie(ProcessDims(data, 1, NoTotals, NoUp))}

TieChoices(data) == {[s \in Slots |-> s \in U] : U \in SUBSET OpenTies(data)}

(***************************************************************************)
(* Input documents of compute_scores.                                      *)
(***************************************************************************)
\* Keys of the indicators, by position in the document.
IndicatorIds == <<"i1", "i2", "i3", "i4", "i5", "i6">>

\* A well-formed indicator with points p and weight w (hundredths).
Indicator(p, w) == Test("", Num(p), ScoreMap(Num(w)), "", MsgAbsent)

\* Numeric indicators: the spec's asymmetric example (100 at weight 10, 0 at
\* weight 1), equal weights, the two scores just under the colour
\* boundaries, and a negative weight.
NumericKinds ==
    { Indicator(100 * Scale, 10 * Scale), Indicator(0, Scale),
      Indicator(100 * Scale, Scale), Indicator(7499, Scale),
      Indicator(4999, Scale), Indicator(80 * Scale, -Scale) }

\* Malformed and message shapes of an entry.
ShapeKinds ==
    { NotATest,
      Test("", Null, ScoreMap(Num(Scale)), "", MsgNull),
      Test("", Str, ScoreMap(Num(Scale)), "", MsgAbsent),
      Test("", NumStr(12 * Scale), ScoreMap(Num(Scale)), "", MsgAbsent),
      Test("", Num(80 * Scale), ScoreAbsent, "", MsgAbsent),
      Test("", Num(80 * Scale), ScoreNull, "", MsgAbsent),
      Test("", Num(80 * Scale), ScoreNum, "", MsgAbsent),
      Test("", Num(80 * Scale), ScoreMap(Null), "", MsgAbsent),
      Test("", Num(80 * Scale), ScoreMap(Str), "", MsgAbsent),
      Test("", Num(80 * Scale), ScoreMap(Num(Scale)), "", MsgStr("A")),
      Test("", Num(80 * Scale), ScoreMap(Num(Scale)), "",
           MsgList(<<MsgObj("A"), MsgObj("B")>>)),
      Test("", Num(80 * Scale), ScoreMap(Num(Scale)), "", MsgList(<<MsgElemStr("A")>>)),
      Test("", Num(80 * Scale), ScoreMap(Num(Scale)), "", MsgList(<<MsgObjEmpty>>)),
      Test("Test name", Num(20 * Scale), ScoreMap(Num(Scale)), "#123456", MsgAbsent) }

\* The entries lo+1..hi of the flat sequence s as a principle's items.
ItemsFrom(s, lo, hi) ==
    [i \in 1..(hi - lo) |-> [key |-> IndicatorIds[lo + i], val |-> s[lo + i]]]

\* The document that gives findable the entries 1..a of s, accessible
\* a+1..b, interoperable b+1..c and reusable the rest; a principle without
\* entries has the value `empty`.
MkDoc(s, a, b, c, empty) ==
    LET dim(lo, hi) == IF hi = lo THEN empty ELSE DimMap(ItemsFrom(s, lo, hi))
    IN  DocMap([d \in DimSet |->
                  CASE d = "findable" -> dim(0, a)
                    [] d = "accessible" -> dim(a, b)
                    [] d = "interoperable" -> dim(b, c)
                    [] OTHER -> dim(c, Len(s))], 0)

\* Is data a document of at most n entries drawn from kinds, its principles
\* without entries being one of empties?
IsDocOver(doc, kinds, n, empties) ==
    \E k \in 0..n : \E s \in [1..k -> kinds] :
        \E a \in 0..k : \E b \in a..k : \E c \in b..k : \E e \in empties :
            doc = MkDoc(s, a, b, c, e)

\* The document doc with the j-th entry of principle d keyed "result".
WithResultKey(doc, d, j) ==
    [doc EXCEPT !.m[d].items[j].key = "result"]

\* Is data a numeric document of at most n indicators, one of them keyed
\* "result"?
IsResultKeyedDoc(doc, n) ==
    \E k \in 1..n : \E s \in [1..k -> NumericKinds] :
        \E a \in 0..k : \E b \in a..k : \E c \in b..k :
            \E d \in DimSet :
                \E j \in DOMAIN MkDoc(s, a, b, c, DimMap(<<>>)).m[d].items :
                    doc = WithResultKey(MkDoc(s, a, b, c, DimMap(<<>>)), d, j)

\* The inputs: numeric documents; documents of malformed and message shapes
\* with the principles they leave out missing; single entries beside
\* principles that are null or no mapping at all; and numeric documents
\* with an indicator whose id is "result".
IsAggregatorInput(doc) ==
    \/ IsDocOver(doc, NumericKinds, MaxIndicators, {DimMap(<<>>)})
    \/ IsDocOver(doc, ShapeKinds, MaxShapes, {DimAbsent})
    \/ IsDocOver(doc, ShapeKinds, 1, {DimNull, DimStr})
    \/ IsResultKeyedDoc(doc, MaxResultKeyed)

(***************************************************************************)
(* Strings the handlers strip are sequences of characters; " " is the      *)
(* whitespace character.                                                   *)
(***************************************************************************)
RECURSIVE LStrip(_, _)
LStrip(s, ch) == IF s # <<>> /\ Head(s) = ch THEN LStrip(Tail(s), ch) ELSE s
RECURSIVE RStrip(_, _)
RStrip(s, ch) ==
    IF s # <<>> /\ s[Len(s)] = ch THEN RStrip(SubSeq(s, 1, Len(s) - 1), ch) ELSE s
\* str.strip()
Strip(s) == RStrip(LStrip(s, " "), " ")

\* A request parameter: missing (has = FALSE) or the string s.
NoParam == [has |-> FALSE, s |-> <<>>]
Param(s) == [has |-> TRUE, s |-> s]
\* (request.values.get(name) or "").strip()
StrippedValue(v) == Strip(IF v.has THEN v.s ELSE <<>>)

(***************************************************************************)
(* Settings and create_app.                                                *)
(***************************************************************************)
ApiTimeout == 30
DefaultApiPort == 9090
ReservedKey == "evaluator_logs"
ApiPath == "/v1.0/rda/rda_all"

\* Settings() with the environment unset, but for the development flag.
Settings(dev) ==
    [api_url |-> <<"http://localhost">>, api_port |-> DefaultApiPort,
     title |-> "FAIR EVA", logo_url |-> "https://digital.csic.es",
     logo_image |-> "logo_fair_eosc.png", dev_mode |-> dev,
     sample_file |-> "data/salida_new.json"]

AVAILABLE_PLUGINS == {<<"signposting">>, <<"oai_pmh">>, <<"custom_plugin">>}

\* The rules create_app registers, in order, each with its endpoint: the
\* endpoint of a view is the name of its function.
url_map ==
    << [rule |-> "/", endpoint |-> "index"],
       [rule |-> "/evaluator", endpoint |-> "evaluator"],
       [rule |-> "/evaluate", endpoint |-> "evaluator"],
       [rule |-> "/error", endpoint |-> "error"] >>

\* flask.url_for(endpoint): the first rule of the endpoint, or BuildError.
url_for(endpoint) ==
    LET hits == {i \in DOMAIN url_map : url_map[i].endpoint = endpoint}
    IN  IF hits = {} THEN [raised |-> "BuildError", rule |-> ""]
        ELSE [raised |-> "",
              rule |-> url_map[CHOOSE i \in hits : \A j \in hits : i <= j].rule]

\* The endpoint a requested path is routed to.
EndpointOf(rule) ==
    url_map[CHOOSE i \in DOMAIN url_map : url_map[i].rule = rule].endpoint

(***************************************************************************)
(* Responses.                                                              *)
(***************************************************************************)
NoContext ==
    [item_id |-> <<>>, plugin_name |-> <<>>, principles |-> [d \in DimSet |-> <<>>],
     aggregated |-> [s \in Slots |-> 0], colours |-> [s \in Slots |-> ""],
     result_points |-> 0, result_color |-> "",
     summary_by_area |-> [d \in DimSet |-> [score |-> 0, max |-> 0]],
     indicators_by_area |-> [d \in DimSet |-> <<>>]]
NoResponse ==
    [kind |-> "none", template |-> "", error |-> <<>>, location |-> "",
     args |-> [item_id |-> NoParam, plugin |-> NoParam], context |-> NoContext]
Page(template) == [NoResponse EXCEPT !.kind = "page", !.template = template]
ErrorPage(error) == [Page("error.html") EXCEPT !.error = error]
Redirect(rule, args) ==
    [NoResponse EXCEPT !.kind = "redirect", !.location = rule, !.args = args]
\* An exception that leaves the view: the request fails.
Failure(exc) == [NoResponse EXCEPT !.kind = "exception", !.error = <<exc>>]

NoRequest ==
    [path |-> "", method |-> "", item_id |-> NoParam, plugin |-> NoParam, csrf |-> FALSE]

(***************************************************************************)
(* The sources of the evaluation document.                                 *)
(*                                                                         *)
(* A JSON text parses to a mapping (its items in document order) or to     *)
(* something else.  The sample file is missing, unreadable, no JSON, or a  *)
(* JSON text.  The API cannot be reached, times out, or answers with a     *)
(* status and a body that is a JSON text or not.                           *)
(***************************************************************************)
JsonMap(items) == [t |-> "map", items |-> items]
JsonList == [t |-> "list", items |-> <<>>]
FileOf(t, top) == [t |-> t, top |-> top]
ApiOf(t, status, okbody, top) == [t |-> t, status |-> status, okbody |-> okbody, top |-> top]

NoFile == FileOf("none", JsonList)
NoApi == ApiOf("none", 0, FALSE, JsonList)

NoResultData == [has |-> FALSE, v |-> DocNull]

\* FirstData without the test on the key: the first key whatever its name.
FirstData_AnyKey(items, i) ==
    IF i > Len(items) THEN NoResultData
    ELSE [has |-> TRUE, v |-> items[i].val]

\* Lines 263-266 and 275-278: the value of the first key that is not the
\* reserved one; a JSON value without items() raises.
RECURSIVE FirstData(_, _)
FirstData(items, i) ==
    IF i > Len(items) THEN NoResultData
    ELSE IF items[i].key # ReservedKey THEN [has |-> TRUE, v |-> items[i].val]
    ELSE FirstData(items, i + 1)

SelectData(top) ==
    IF top.t # "map" THEN [raised |-> "AttributeError", result_data |-> NoResultData]
    ELSE [raised |-> "", result_data |-> FirstData(top.items, 1)]

\* Lines 260-266.
LoadSample(c, file) ==
    LET op == <<[op |-> "open", target |-> <<c.sample_file>>, id |-> <<>>, lang |-> "",
                 timeout |-> 0, file |-> file, api |-> NoApi]>>
        got == CASE file.t = "missing" ->
                      [raised |-> "FileNotFoundError", result_data |-> NoResultData]
                 [] file.t = "unreadable" ->
                      [raised |-> "PermissionError", result_data |-> NoResultData]
                 [] file.t = "invalid" ->
                      [raised |-> "JSONDecodeError", result_data |-> NoResultData]
                 [] OTHER -> SelectData(file.top)
    IN  [raised |-> got.raised, result_data |-> got.result_data, io |-> op]

\* Lines 268-278.
LoadApi(c, item_id, api) ==
    LET op == <<[op |-> "post",
                 target |-> RStrip(c.api_url, "/") \o <<":", c.api_port, ApiPath>>,
                 id |-> item_id, lang |-> "en", timeout |-> ApiTimeout,
                 file |-> NoFile, api |-> api]>>
        got == CASE api.t = "unreachable" ->
                      [raised |-> "ConnectionError", result_data |-> NoResultData]
                 [] api.t = "timeout" ->
                      [raised |-> "Timeout", result_data |-> NoResultData]
                 [] api.status >= 400 ->
                      [raised |-> "HTTPError", result_data |-> NoResultData]
                 [] ~api.okbody ->
                      [raised |-> "JSONDecodeError", result_data |-> NoResultData]
                 [] OTHER -> SelectData(api.top)
    IN  [raised |-> got.raised, result_data |-> got.result_data, io |-> op]

\* HasData as `result_data is not None or a key was found`: no truth test.
HasData_KeyFound(rd) == rd.has

\* Python truth value of result_data.
HasData(rd) ==
    /\ rd.has
    /\ \/ rd.v.t = "str"
       \/ rd.v.t = "map" /\ (rd.v.other > 0 \/ \E d \in DimSet : rd.v.m[d].t # "absent")

(***************************************************************************)
(* View-model assembly (lines 297-407).                                    *)
(***************************************************************************)
\* int(x) of a score in hundredths: truncation towards zero.
IntOf(h) == IF h < 0 THEN -((-h) \div Scale) ELSE h \div Scale

\* _max_for_group: the aggregate record holds no max_points, and no model
\* document has an indicator keyed "indicators" or "tests", so the sum over
\* the tests is 0 and the fallback applies.
FallbackMax == 100
max_for_group(group) == FallbackMax

RECURSIVE tests_list(_, _)
tests_list(group, i) ==
    IF i > Len(group) THEN <<>>
    ELSE IF group[i].key = "result" THEN tests_list(group, i + 1)
    ELSE <<[id |-> group[i].val.name, title |-> group[i].val.name,
            description |-> group[i].val.name, score |-> group[i].val.points,
            max_score |-> 100 * Scale, priority |-> "essential", logs |-> "logs",
            recommendation |-> "RECommendations", details |-> "details"]>>
         \o tests_list(group, i + 1)

EvalPage(item_id, plugin, sc) ==
    [Page("eval.html") EXCEPT !.context =
        [item_id |-> item_id,
         plugin_name |-> IF plugin # <<>> THEN plugin ELSE <<"default">>,
         principles |-> sc.principles,
         aggregated |-> [s \in Slots |->
                           IF s = "fair" THEN sc.fair_points
                           ELSE DictGet(sc.principles[s], "result").points],
         colours |-> [s \in Slots |->
                        IF s = "fair" THEN sc.fair_color
                        ELSE DictGet(sc.principles[s], "result").color],
         result_points |-> sc.fair_points,
         result_color |-> sc.fair_color,
         summary_by_area |-> [d \in DimSet |->
                                [score |-> IntOf(DictGet(sc.principles[d], "result").points),
                                 max |-> max_for_group(sc.principles[d])]],
         indicators_by_area |-> [d \in DimSet |-> tests_list(sc.principles[d], 1)]]]

(***************************************************************************)
(* The world of the model: what a request can carry, what the sample file  *)
(* can hold and what the API can answer.                                   *)
(***************************************************************************)
ItemParams ==
    {NoParam, Param(<<>>), Param(<<" ">>), Param(<<"x">>), Param(<<" ", "x", " ">>)}
PluginParams == {NoParam, Param(<<"signposting">>), Param(<<"bogus">>)}

\* Values of the top-level keys of a loaded JSON text.
SampleA ==
    MkDoc(<<Indicator(100 * Scale, 10 * Scale), Indicator(0, Scale)>>, 1, 2, 2, DimAbsent)
SampleB ==
    MkDoc(<<Indicator(80 * Scale, Scale)>>, 0, 0, 0, DimAbsent)
SampleBad ==
    MkDoc(<<Test("", Str, ScoreMap(Num(Scale)), "", MsgAbsent)>>, 1, 1, 1, DimAbsent)
EmptyDoc == DocMap(NoDims, 0)
GroupValues == {EmptyDoc, SampleA, SampleB}
OddValues == {DocNull, DocStr, DocMap(NoDims, 1), SampleBad}

Logs == [key |-> ReservedKey, val |-> DocStr]
Group(k, v) == [key |-> k, val |-> v]

\* JSON texts: no mapping; no key; only the reserved key; one group, alone
\* or before or after the reserved key; two groups in either order, alone
\* or after the reserved key.
Tops ==
    {JsonList, JsonMap(<<>>), JsonMap(<<Logs>>)}
    \cup {JsonMap(<<Group("group1", v)>>) : v \in GroupValues \cup OddValues}
    \cup {JsonMap(<<Logs, Group("group1", v)>>) : v \in GroupValues}
    \cup {JsonMap(<<Group("group1", v), Logs>>) : v \in GroupValues}
    \cup {JsonMap(<<Group("group1", v), Group("group2", w)>>) : v, w \in GroupValues}
    \cup {JsonMap(<<Group("group2", v), Group("group1", w)>>) : v, w \in GroupValues}
    \cup {JsonMap(<<Logs, Group("group2", v), Group("group1", w)>>) : v, w \in GroupValues}

Files ==
    {FileOf("missing", JsonList), FileOf("unreadable", JsonList), FileOf("invalid", JsonList)}
    \cup {FileOf("json", top) : top \in Tops}

Apis ==
    {ApiOf("unreachable", 0, FALSE, JsonList), ApiOf("timeout", 0, FALSE, JsonList),
     ApiOf("response", 500, TRUE, JsonList), ApiOf("response", 200, FALSE, JsonList)}
    \cup {ApiOf("response", 200, TRUE, top) : top \in Tops}

(***************************************************************************)
(* State.                                                                  *)
(***************************************************************************)
VARIABLES
    cfg,        \* the Settings object create_app captured
    startup,    \* the Settings main() configured and handed to create_app
    request,    \* the request being answered
    io,         \* the file and network operations of that request
    response,   \* the answer to it
    data,       \* the argument of compute_scores
    scores      \* what compute_scores did: not called, raised, or returned

vars == <<cfg, startup, request, io, response, data, scores>>

(***************************************************************************)
(* The views.                                                              *)
(***************************************************************************)
\* DataRequired on a string field.
DataRequired(v) == v.has /\ v.s # <<>> /\ Strip(v.s) # <<>>

\* form.validate_on_submit(): a submitted form whose CSRF token and fields
\* are valid; the plugin must be one of the choices.
validate_on_submit(req) ==
    /\ req.method = "POST"
    /\ req.csrf
    /\ DataRequired(req.item_id)
    /\ DataRequired(req.plugin)
    /\ req.plugin.s \in AVAILABLE_PLUGINS

\* Lines 223-235.
index(req) ==
    /\ response' =
         IF validate_on_submit(req)
         THEN LET u == url_for("evaluate")
              IN  IF u.raised # "" THEN Failure(u.raised)
                  ELSE Redirect(u.rule, [item_id |-> Param(Strip(req.item_id.s)),
                                         plugin |-> req.plugin])
         ELSE Page("index.html")
    /\ io' = <<>>
    /\ data' = DocNull
    /\ scores' = NotCalled
    /\ UNCHANGED cfg

\* Lines 292-440: an exception of compute_scores leaves the view.
Rendered(item_id, plugin, sc) ==
    IF sc.raised # "" THEN Failure(sc.raised) ELSE EvalPage(item_id, plugin, sc)

\* What lines 259-278 can load: the sample file or the API's answer, as
\* the world has them at that moment.
Loads(c, item_id) ==
    IF c.dev_mode THEN {LoadSample(c, file) : file \in Files}
    ELSE {LoadApi(c, item_id, api) : api \in Apis}

\* Lines 240-440.
evaluator(req) ==
    LET item_id == StrippedValue(req.item_id)
        plugin == StrippedValue(req.plugin)
        c == [cfg EXCEPT !.dev_mode = TRUE]
    IN  IF item_id = <<>>
        THEN /\ response' = LET u == url_for("index")
                            IN  IF u.raised # "" THEN Failure(u.raised)
                                ELSE Redirect(u.rule, NoResponse.args)
             /\ io' = <<>>
             /\ data' = DocNull
             /\ scores' = NotCalled
             /\ UNCHANGED cfg
        ELSE /\ cfg' = c
             /\ \E load \in Loads(c, item_id) :
                  /\ io' = load.io
                  /\ IF load.raised # ""
                     THEN /\ response' =
                               ErrorPage(<<"Error loading evaluation data: ", load.raised>>)
                          /\ data' = DocNull
                          /\ scores' = NotCalled
                     ELSE IF ~HasData(load.result_data)
                     THEN /\ response' = ErrorPage(<<"No evaluation data returned.">>)
                          /\ data' = DocNull
                          /\ scores' = NotCalled
                     ELSE \E up \in TieChoices(load.result_data.v) :
                            /\ data' = load.result_data.v
                            /\ scores' = compute_scores(load.result_data.v, up)
                            /\ response' = Rendered(item_id, plugin, scores')

\* Lines 443-446.
error ==
    /\ response' = ErrorPage(<<"An unexpected error occurred.">>)
    /\ io' = <<>>
    /\ data' = DocNull
    /\ scores' = NotCalled
    /\ UNCHANGED cfg

\* The application answering req.
Dispatch(req) ==
    /\ request' = req
    /\ LET ep == EndpointOf(req.path)
       IN  CASE ep = "index" -> index(req)
             [] ep = "evaluator" -> evaluator(req)
             [] OTHER -> error

(***************************************************************************)
(* The application.                                                        *)
(***************************************************************************)
Init ==
    /\ startup \in {Settings(dev) : dev \in BOOLEAN}
    /\ cfg = startup
    /\ request = NoRequest
    /\ io = <<>>
    /\ response = NoResponse
    /\ data = DocNull
    /\ scores = NotCalled

\* A browser opens the index page or submits its form.
RequestIndex ==
    /\ UNCHANGED startup
    /\ \E method \in {"GET", "POST"}, item_id \in ItemParams, plugin \in PluginParams,
          csrf \in BOOLEAN :
           Dispatch([path |-> "/", method |-> method, item_id |-> item_id,
                     plugin |-> plugin, csrf |-> csrf])

\* A client asks for an evaluation, by either path.
RequestEvaluator ==
    /\ UNCHANGED startup
    /\ \E path \in {"/evaluate", "/evaluator"}, item_id \in ItemParams,
          plugin \in PluginParams :
           Dispatch([path |-> path, method |-> "GET", item_id |-> item_id,
                     plugin |-> plugin, csrf |-> FALSE])

\* A client asks for the error page.
RequestError ==
    /\ UNCHANGED startup
    /\ Dispatch([path |-> "/error", method |-> "GET", item_id |-> NoParam,
                 plugin |-> NoParam, csrf |-> FALSE])

\* The browser follows the redirect it was answered with.
FollowRedirect ==
    /\ response.kind = "redirect"
    /\ UNCHANGED startup
    /\ Dispatch([path |-> response.location, method |-> "GET",
                 item_id |-> response.args.item_id, plugin |-> response.args.plugin,
                 csrf |-> FALSE])

Next == RequestIndex \/ RequestEvaluator \/ RequestError \/ FollowRedirect

Spec == Init /\ [][Next]_vars

(***************************************************************************)
(* The aggregator on its own: compute_scores applied to an input document. *)
(***************************************************************************)
InitAggregator ==
    /\ IsAggregatorInput(data)
    /\ scores = NotCalled
    /\ startup = Settings(FALSE)
    /\ cfg = startup
    /\ request = NoRequest
    /\ io = <<>>
    /\ response = NoResponse

Aggregate ==
    /\ ~scores.called
    /\ \E up \in TieChoices(data) : scores' = compute_scores(data, up)
    /\ UNCHANGED <<cfg, startup, request, io, response, data>>

SpecAggregator == InitAggregator /\ [][Aggregate]_vars

(***************************************************************************)
(* What the claims speak of, read off the input document alone.            *)
(***************************************************************************)
ScoresReturned == scores.called /\ scores.raised = ""

\* The number a scalar stands for: 0 unless it is numeric.
NumberOf(v) == IF v.t \in {"num", "numstr"} THEN v.n ELSE 0
IndicatorPoints(test) == NumberOf(test.points)
IndicatorWeight(test) == IF test.score.t = "map" THEN NumberOf(test.score.weight) ELSE 0

RECURSIVE SeqSum(_)
SeqSum(s) == IF s = <<>> THEN 0 ELSE Head(s) + SeqSum(Tail(s))

\* The indicators of a principle: its entries that are structured objects.
IndicatorsOf(doc, d) ==
    {i \in DOMAIN doc.m[d].items : doc.m[d].items[i].val.isdict}

WeightedPoints(doc, d) ==
    SeqSum([i \in DOMAIN doc.m[d].items |->
              IF i \in IndicatorsOf(doc, d)
              THEN IndicatorPoints(doc.m[d].items[i].val)
                   * IndicatorWeight(doc.m[d].items[i].val)
              ELSE 0])
Weights(doc, d) ==
    SeqSum([i \in DOMAIN doc.m[d].items |->
              IF i \in IndicatorsOf(doc, d)
              THEN IndicatorWeight(doc.m[d].items[i].val) ELSE 0])

AllWeightedPoints(doc) == SeqSum([i \in DOMAIN Dims |-> WeightedPoints(doc, Dims[i])])
AllWeights(doc) == SeqSum([i \in DOMAIN Dims |-> Weights(doc, Dims[i])])

\* x is num / den rounded to two decimals: no hundredth is nearer.
IsRounded(x, num, den) ==
    IF den > 0 THEN 2 * Abs(x * den - num) <= den
    ELSE 2 * Abs(x * (-den) + num) <= -den

AggregateOf(d) == DictGet(scores.principles[d], "result")
MeanOfAggregates == SeqSum([i \in DOMAIN Dims |-> AggregateOf(Dims[i]).points]) \div 4

(***************************************************************************)
(* C1.  The overall FAIR score is the global weighted average: the sum of  *)
(* points*weight over all indicators of all principles divided by the sum  *)
(* of their weights, rounded to two decimals; not the mean of the four     *)
(* principle aggregates.                                                   *)
(***************************************************************************)
\* C1 as claimed, for every document (a quotient by 0 left aside).
C1_OverallIsGlobalAverage ==
    ScoresReturned /\ AllWeights(data) # 0
        => IsRounded(scores.fair_points, AllWeightedPoints(data), AllWeights(data))

\* C1 amended: the global weighted average when the total weight is
\* positive, and 0.0 when it is zero or negative.
C1_OverallIsGlobalAverageIfPositive ==
    ScoresReturned
        => IF AllWeights(data) > 0
           THEN IsRounded(scores.fair_points, AllWeightedPoints(data), AllWeights(data))
           ELSE scores.fair_points = 0

\* The spec's asymmetric example: 100 at weight 10 against three 0 at
\* weight 1 scores 76.92, where the mean of the aggregates is 25.
C1_Example ==
    MkDoc(<<Indicator(100 * Scale, 10 * Scale), Indicator(0, Scale), Indicator(0, Scale),
            Indicator(0, Scale)>>, 1, 2, 3, DimMap(<<>>))
C1_Witness ==
    /\ ScoresReturned
    /\ data = C1_Example
    /\ scores.fair_points = 7692
    /\ MeanOfAggregates = 25 * Scale

(***************************************************************************)
(* C2.  A principle's aggregate is its accumulated points*weight divided   *)
(* by its accumulated weight, rounded to two decimals; with no weight to   *)
(* divide by (no indicators, a missing key, weights of zero) it is exactly *)
(* 0.0 and red.                                                            *)
(***************************************************************************)
\* C2 as claimed: the quotient whenever the accumulated weight is not 0.
C2_AggregateIsQuotientUnlessZero ==
    ScoresReturned =>
        \A d \in DimSet :
            IF Weights(data, d) # 0
            THEN IsRounded(AggregateOf(d).points, WeightedPoints(data, d), Weights(data, d))
            ELSE AggregateOf(d).points = 0 /\ AggregateOf(d).color = Red

\* C2 amended: the quotient whenever the accumulated weight is positive,
\* and 0.0 and red whenever it is zero or negative.
C2_AggregateIsQuotientIfPositive ==
    ScoresReturned =>
        \A d \in DimSet :
            IF Weights(data, d) > 0
            THEN IsRounded(AggregateOf(d).points, WeightedPoints(data, d), Weights(data, d))
            ELSE AggregateOf(d).points = 0 /\ AggregateOf(d).color = "#E74C3C"

\* A document with a weighted principle, a principle whose only indicator
\* has no weight, and a principle whose key is missing.
C2_Witness ==
    /\ ScoresReturned
    /\ \E d \in DimSet : Weights(data, d) > 0 /\ AggregateOf(d).points = 80 * Scale
    /\ \E d \in DimSet : /\ IndicatorsOf(data, d) # {}
                         /\ Weights(data, d) = 0
                         /\ WeightedPoints(data, d) = 0
                         /\ AggregateOf(d) = [points |-> 0, color |-> Red]
    /\ \E d \in DimSet : /\ data.m[d].t = "absent"
                         /\ AggregateOf(d) = [points |-> 0, color |-> Red]

(***************************************************************************)
(* C3.  compute_scores never fails on a mapping of mappings: a malformed   *)
(* value of an indicator (points that are no number, a score that is null  *)
(* or no mapping, a msg list of other things than mappings) counts as 0    *)
(* and the rest is still aggregated.                                       *)
(***************************************************************************)
IsMappingOfMappings(doc) ==
    doc.t = "map" /\ \A d \in DimSet : doc.m[d].t \in {"absent", "map"}

C3_NeverFails ==
    scores.called /\ IsMappingOfMappings(data)
        => /\ scores.raised = ""
           /\ \A d \in DimSet :
                IF Weights(data, d) > 0
                THEN IsRounded(AggregateOf(d).points, WeightedPoints(data, d),
                               Weights(data, d))
                ELSE AggregateOf(d).points = 0

(***************************************************************************)
(* C4.  The msg of every processed indicator is a list of plain strings:   *)
(* the message strings, in order, of a list of objects with a "message";   *)
(* the one-element list of a scalar msg; the empty list of an absent msg.  *)
(***************************************************************************)
MessagesOf(msg) ==
    CASE msg.t = "list" -> MsgList([i \in DOMAIN msg.l |-> msg.l[i].message])
      [] msg.t = "str" -> MsgList(<<msg.s>>)
      [] OTHER -> MsgList(<<>>)

C4_MsgIsListOfStrings ==
    ScoresReturned =>
        \A d \in DimSet : \A i \in IndicatorsOf(data, d) :
            LET test == data.m[d].items[i].val
                out == DictGet(scores.principles[d], data.m[d].items[i].key)
            IN  (test.msg.t = "list" => \A j \in DOMAIN test.msg.l : test.msg.l[j].has)
                    => "msg" \in DOMAIN out /\ out.msg = MessagesOf(test.msg)

(***************************************************************************)
(* C5.  The colour of every principle aggregate and of the overall score   *)
(* follows the rounded score: green from 75, yellow from 50 to under 75,   *)
(* red under 50.                                                           *)
(***************************************************************************)
Band(points) ==
    IF points >= 7500 THEN "#2ECC71"
    ELSE IF points >= 5000 THEN "#F4D03F"
    ELSE "#E74C3C"

C5_ColourFollowsScore ==
    ScoresReturned =>
        /\ scores.fair_color = Band(scores.fair_points)
        /\ \A d \in DimSet : AggregateOf(d).color = Band(AggregateOf(d).points)

\* Aggregates of 74.99 (yellow), 49.99 (red) and 50.0 (yellow) in one result.
C5_Witness ==
    /\ ScoresReturned
    /\ \E d \in DimSet : AggregateOf(d) = [points |-> 7499, color |-> "#F4D03F"]
    /\ \E d \in DimSet : AggregateOf(d) = [points |-> 4999, color |-> "#E74C3C"]
    /\ \E d \in DimSet : AggregateOf(d) = [points |-> 5000, color |-> "#F4D03F"]

\* An aggregate of exactly 75.0, green.
C5_GreenBoundary ==
    ScoresReturned /\ \E d \in DimSet : AggregateOf(d) = [points |-> 7500, color |-> "#2ECC71"]

(***************************************************************************)
(* What the claims about the views speak of.                               *)
(***************************************************************************)
\* The request was an evaluation request that went on to load a document.
EvaluationRequested ==
    /\ request.path \in {"/evaluate", "/evaluator"}
    /\ StrippedValue(request.item_id) # <<>>

\* The JSON text the load of this request parsed, if it parsed one.
LoadedJson ==
    /\ Len(io) = 1
    /\ \/ io[1].op = "open" /\ io[1].file.t = "json"
       \/ io[1].op = "post" /\ io[1].api.t = "response" /\ io[1].api.status < 400
                            /\ io[1].api.okbody
LoadedTop == IF io[1].op = "open" THEN io[1].file.top ELSE io[1].api.top

\* Positions of the top-level keys other than evaluator_logs.
Eligible(items) == {i \in DOMAIN items : items[i].key # "evaluator_logs"}
FirstEligible(items) == CHOOSE i \in Eligible(items) : \A j \in Eligible(items) : i <= j

\* A JSON value that holds nothing: null or the empty object.
IsEmptyValue(v) ==
    \/ v.t = "null"
    \/ v.t = "map" /\ v.other = 0 /\ \A d \in DimSet : v.m[d].t = "absent"

ResultsPageRendered == response.kind = "page" /\ response.template = "eval.html"

(***************************************************************************)
(* C6.  The configured mode decides where the document comes from: with    *)
(* dev_mode configured false an evaluation request issues exactly one POST *)
(* to {api_url}:{api_port}/v1.0/rda/rda_all with body {id, lang: "en"} and *)
(* never opens the sample file; the sample file is opened only when        *)
(* dev_mode is configured true.                                            *)
(***************************************************************************)
C6_ModeAuthoritative ==
    /\ (EvaluationRequested /\ ~startup.dev_mode) =>
          /\ Len(io) = 1
          /\ io[1].op = "post"
          /\ io[1].target = <<"http://localhost", ":", 9090, "/v1.0/rda/rda_all">>
          /\ io[1].id = StrippedValue(request.item_id)
          /\ io[1].lang = "en"
    /\ \A k \in DOMAIN io : io[k].op = "open" => startup.dev_mode

(***************************************************************************)
(* C7.  The document handed to compute_scores is the value of the first    *)
(* top-level key, in document order, that is not evaluator_logs; a later   *)
(* key is never used, and a text without such a key ends in the "no data"  *)
(* error page without compute_scores being called.                         *)
(***************************************************************************)
C7_FirstNonReservedKey ==
    /\ scores.called => LoadedJson /\ LoadedTop.t = "map"
    /\ (EvaluationRequested /\ LoadedJson /\ LoadedTop.t = "map") =>
          LET items == LoadedTop.items
          IN  /\ scores.called =>
                    /\ Eligible(items) # {}
                    /\ data = items[FirstEligible(items)].val
              /\ (Eligible(items) # {} /\ ~IsEmptyValue(items[FirstEligible(items)].val))
                    => scores.called
              /\ Eligible(items) = {} =>
                    /\ response = ErrorPage(<<"No evaluation data returned.">>)
                    /\ ~scores.called

\* evaluator_logs first, then group2 and group1: the value of group2 is the
\* one aggregated, and the page shows its scores.
C7_Witness ==
    /\ EvaluationRequested
    /\ LoadedJson
    /\ LoadedTop = JsonMap(<<Logs, Group("group2", SampleB), Group("group1", SampleA)>>)
    /\ scores.called
    /\ data = SampleB
    /\ ResultsPageRendered
    /\ response.context.result_points = 8000

\* The reserved key after the group: the group's value is still the one used.
C7_ReservedKeyLast ==
    /\ EvaluationRequested
    /\ LoadedJson
    /\ LoadedTop = JsonMap(<<Group("group1", SampleA), Logs>>)
    /\ scores.called
    /\ data = SampleA

(***************************************************************************)
(* C8.  A load that fails (file missing, unreadable, no JSON or no JSON    *)
(* object; API unreachable, timed out, answering an error status or a      *)
(* malformed body) and a loaded text without data (no key besides          *)
(* evaluator_logs, or a first such key holding null or an empty object)    *)
(* end the request with the error page and its message: compute_scores is  *)
(* not called, the results page is not rendered, the load happens once.    *)
(***************************************************************************)
LoadFailed ==
    /\ Len(io) = 1
    /\ \/ ~LoadedJson
       \/ LoadedTop.t # "map"

LoadedWithoutData ==
    /\ LoadedJson
    /\ LoadedTop.t = "map"
    /\ \/ Eligible(LoadedTop.items) = {}
       \/ IsEmptyValue(LoadedTop.items[FirstEligible(LoadedTop.items)].val)

C8_EmptyFirstGroup ==
    /\ EvaluationRequested
    /\ LoadedJson
    /\ LoadedTop = JsonMap(<<Group("group1", EmptyDoc), Group("group2", SampleA)>>)
    /\ response = ErrorPage(<<"No evaluation data returned.">>)
    /\ ~scores.called

(***************************************************************************)
(* C9.  A valid submission of the index form (identifier not blank, plugin *)
(* one of the choices) is answered with a redirect to a path of the        *)
(* evaluation endpoint that carries item_id and plugin; an evaluation      *)
(* request whose item_id is missing or blank is answered with a redirect   *)
(* to the index and loads nothing.                                         *)
(***************************************************************************)
ValidSubmission ==
    /\ request.path = "/"
    /\ request.method = "POST"
    /\ request.csrf
    /\ request.item_id.has
    /\ Strip(request.item_id.s) # <<>>
    /\ request.plugin.has
    /\ request.plugin.s \in {<<"signposting">>, <<"oai_pmh">>, <<"custom_plugin">>}

C9_ValidSubmitRedirects ==
    /\ ValidSubmission =>
          /\ response.kind = "redirect"
          /\ response.location \in {"/evaluate", "/evaluator"}
          /\ response.args.item_id = Param(Strip(request.item_id.s))
          /\ response.args.plugin = request.plugin
    /\ (request.path \in {"/evaluate", "/evaluator"}
        /\ StrippedValue(request.item_id) = <<>>) =>
          /\ response.kind = "redirect"
          /\ response.location = "/"
          /\ io = <<>>
          /\ ~scores.called

\* The half of C9 the code keeps: a blank item_id leads back to the index.
C9_BlankIdRedirectsToIndex ==
    (request.path \in {"/evaluate", "/evaluator"}
     /\ StrippedValue(request.item_id) = <<>>) =>
        /\ response.kind = "redirect"
        /\ response.location = "/"
        /\ io = <<>>
        /\ ~scores.called

\* What the code answers to a valid submission.
C9_SubmitFails == ValidSubmission /\ response = Failure("BuildError")

(***************************************************************************)
(* C10.  No request changes the Settings object create_app captured: after *)
(* any sequence of requests every field, dev_mode in particular, has the   *)
(* value configured at startup.                                            *)
(***************************************************************************)
C10_SettingsUnchanged == cfg = startup

\* What the code does: a production configuration after one evaluation.
C10_DevModeSwitchedOn == ~startup.dev_mode /\ cfg.dev_mode

(***************************************************************************)
(* C11.  For every principle, the indicators that contribute to its        *)
(* aggregate are exactly the indicators its output breakdown and the       *)
(* flattened indicator list show: every structured entry of the input is   *)
(* in the output under its own key with its own points and weight, an      *)
(* indicator whose id is "result" included, and the key "result" holds the *)
(* aggregate record {points, color}.                                       *)
(***************************************************************************)
\* The keys of a dict.
KeysOf(d) == {d[i].key : i \in DOMAIN d}

\* The keys of the structured entries of principle d of the input.
IndicatorKeys(doc, d) == {doc.m[d].items[i].key : i \in IndicatorsOf(doc, d)}

\* The output of principle d shows the indicator at position i of the input:
\* an entry under its key with its points and weight, and the same in the
\* flattened list.
IsListed(d, i) ==
    LET key == data.m[d].items[i].key
        test == data.m[d].items[i].val
        out == scores.principles[d]
        flat == tests_list(out, 1)
    IN  /\ DictHas(out, key)
        /\ "score" \in DOMAIN DictGet(out, key)
        /\ DictGet(out, key).points = IndicatorPoints(test)
        /\ DictGet(out, key).score.weight = IndicatorWeight(test)
        /\ \E j \in DOMAIN flat :
              /\ flat[j].id = (IF test.name # "" THEN test.name ELSE key)
              /\ flat[j].score = IndicatorPoints(test)

C11_ContributorsAreListed ==
    ScoresReturned =>
        \A d \in DimSet :
            /\ \A i \in IndicatorsOf(data, d) : IsListed(d, i)
            /\ Len(tests_list(scores.principles[d], 1)) = Cardinality(IndicatorsOf(data, d))
            /\ KeysOf(scores.principles[d]) \ {"result"} = IndicatorKeys(data, d) \ {"result"}
            /\ DOMAIN AggregateOf(d) = {"points", "color"}

\* The part of C11 the code keeps: every indicator with another id than
\* "result" is listed, nothing else is, and "result" holds the aggregate.
C11_OtherIdsAreListed ==
    ScoresReturned =>
        \A d \in DimSet :
            /\ \A i \in IndicatorsOf(data, d) :
                  data.m[d].items[i].key # "result" => IsListed(d, i)
            /\ KeysOf(scores.principles[d]) \ {"result"} = IndicatorKeys(data, d) \ {"result"}
            /\ DOMAIN AggregateOf(d) = {"points", "color"}

\* What the code does with an indicator whose id is "result": it counts in
\* the aggregate (here 100 at weight 1 gives 100.0) and the breakdown holds
\* the aggregate record in its place.
C11_ResultIdCountedNotListed ==
    /\ ScoresReturned
    /\ \E d \in DimSet :
          /\ "result" \in IndicatorKeys(data, d)
          /\ Cardinality(IndicatorsOf(data, d)) = 1
          /\ Weights(data, d) = Scale
          /\ WeightedPoints(data, d) = 100 * Scale * Scale
          /\ scores.principles[d] = <<[key |-> "result",
                                       val |-> [points |-> 100 * Scale, color |-> Green]]>>
          /\ tests_list(scores.principles[d], 1) = <<>>

====
